---- MODULE Spec2Model ----
(***************************************************************************)
(* A model of parcels' Kernel (src/parcels/kernel.py): the interpreted     *)
(* core loop execute_python, the recovery loop of execute, and kernel      *)
(* concatenation (merge), over a one-dimensional domain with integer       *)
(* positions and times; and the compile cache of JIT kernels (_cache_key,  *)
(* compile, load_lib) shared by several processes.                         *)
(***************************************************************************)
EXTENDS Integers, Sequences, FiniteSets, TLC

VARIABLES
  particles,          \* pset.particles: the rows of the set, in order
  recovery_base_map,  \* parcels.kernels.error.recovery_map (module global)
  pc,                 \* where execute stands
  kernel,             \* self: the Kernel being executed
  endtime, dt,        \* execute's arguments endtime and dt
  recovery,           \* execute's argument recovery (the overrides)
  prevRecovery,       \* the overrides of the call before this one
  recovery_map,       \* execute's local recovery_map
  idx,                \* position of `for p in pset.particles`
  dt_pos,             \* execute_python's local dt_pos
  sweep,              \* 1 in the sweep of line 171, 2 in a re-run (line 193)
  error_particles,    \* execute's local error_particles (particle ids)
  ridx,               \* position of `for p in error_particles`
  callsLeft,          \* calls of execute the driver may still make
  phase,              \* what the driver is doing
  opA, opB, opC,      \* the operands of a concatenation
  resultL,            \* the outcome of executing (A+B)+C
  pset0,              \* the set as it was before the operation under study
  added,              \* the rows passed to add so far, in order
  returned,           \* the rows remove(index) has returned so far, in order
  removeArgs,         \* the arguments of the remove calls so far, in order
  before,             \* the set as the current remove call or re-run found it
  alone,              \* id of the particle executed on its own, 0 if none
  files,              \* the compile cache directory: path -> content
  proc,               \* per process: its JIT Kernel object and where it stands
  compiledFrom,       \* every source text the compiler has read so far
  \* history of the current call of execute
  last,               \* the most recent kernel invocation of the sweep
  visited,            \* ids of the particles the current sweep has reached
  handled,            \* what the current recovery round did: id, state, kernel
  snap,               \* the set when error_particles was last computed
  fixed,              \* error_particles was recomputed and nothing had changed
  marked,             \* ids of the particles whose state was ever set to Delete
  oob                 \* ids of the particles whose kernel failed out of bounds

cacheVars == << files, proc, compiledFrom >>

callVars == << kernel, endtime, dt, recovery, prevRecovery, recovery_map,
               recovery_base_map, callsLeft, phase, cacheVars >>

driverVars == << opA, opB, opC, resultL, pset0, added, returned, removeArgs,
                before, alone >>

vars == << particles, pc, idx, dt_pos, sweep, error_particles, ridx, callVars,
           driverVars, last, visited, handled, snap, fixed, marked, oob >>

----------------------------------------------------------------------------
(* Bounds of the model *)

MaxParticles == 2
MaxEnd == 3
MaxCalls == 2
MaxSize == 4
MaxProcs == 2
MaxExec == 2

(* Times further than this from 0 are not followed *)
TimeCap == MaxEnd + 1

(* The domain of the fields: lon = linspace(0, 1, xdim) *)
DomainMax == 1

----------------------------------------------------------------------------
(* ErrorCode and helpers *)

ErrorCode == {"Success", "Repeat", "Delete", "ErrorOutOfBounds", "Error"}

Abs(x) == IF x < 0 THEN -x ELSE x

Min(a, b) == IF a <= b THEN a ELSE b

Range(s) == {s[i] : i \in 1..Len(s)}

SelectIdx(s, keep) ==
  LET F[i \in 0..Len(s)] ==
        IF i = 0 THEN << >>
        ELSE IF i \in keep THEN Append(F[i-1], s[i]) ELSE F[i-1]
  IN F[Len(s)]

----------------------------------------------------------------------------
(* Kernel bodies.  A statement names the particle by the parameter name of *)
(* the function it was written in (ref); a Kernel carries the parameter    *)
(* name of its header (args) and its body statements.                      *)

Stmt(op, val, ref) == [op |-> op, val |-> val, ref |-> ref]

SSample(r)   == Stmt("sample", "-", r)     \* grid.U[particle.lon, ...]
SMove(r)     == Stmt("move", "-", r)       \* particle.lon += u * dt
SDeleteIf(r) == Stmt("delete_if", "-", r)  \* if particle.lon >= .4: particle.delete()
SReturn(c)   == Stmt("return", c, "-")     \* return ErrorCode.c
SRaise       == Stmt("raise", "-", "-")    \* any other failure in the body

MkKernel(name, args, body) == [funcname |-> name, args |-> args, body |-> body]

AdvectionEE  == MkKernel("EE", "particle", << SSample("particle"), SMove("particle") >>)
DeleteKernel == MkKernel("Del", "particle", << SDeleteIf("particle") >>)
RepeatKernel == MkKernel("Rep", "particle", << SReturn("Repeat") >>)
FailKernel   == MkKernel("Fail", "particle", << SRaise >>)
OkKernel     == MkKernel("Ok", "particle", << SReturn("Success") >>)
DeleteP      == MkKernel("DelP", "p", << SDeleteIf("p") >>)

(* Kernel.merge: the header of self, the bodies in sequence *)
MergeSwapped(self, k) ==
  MkKernel(k.funcname \o self.funcname, k.args, k.body \o self.body)

MergeFirstOnly(self, k) ==
  MkKernel(self.funcname \o k.funcname, self.args,
           self.body \o SubSeq(k.body, 1, 1))

Merge(self, k) ==
  MkKernel(self.funcname \o k.funcname, self.args, self.body \o k.body)

----------------------------------------------------------------------------
(* One call of self.pyfunc(p, pset.grid, p.time, step)                     *)

InDomain(lon) == 0 <= lon /\ lon <= DomainMax

DeleteCond(lon) == lon * 10 >= 4

(* The outcome of one statement: how it ends ("next", "return", "fse",     *)
(* "exc") and the particle after it.                                       *)
ExecStmt(args, s, p, step) ==
  IF s.ref # "-" /\ s.ref # args
    THEN [how |-> "exc", res |-> "None", p |-> p]        \* NameError
  ELSE IF s.op = "sample"
    THEN IF InDomain(p.lon) THEN [how |-> "next", res |-> "None", p |-> p]
         ELSE [how |-> "fse", res |-> "None", p |-> p]
  ELSE IF s.op = "move"
    THEN [how |-> "next", res |-> "None", p |-> [p EXCEPT !.lon = @ + step]]
  ELSE IF s.op = "delete_if"
    THEN [how |-> "next", res |-> "None",
          p |-> IF DeleteCond(p.lon) THEN [p EXCEPT !.state = "Delete"] ELSE p]
  ELSE IF s.op = "return"
    THEN [how |-> "return", res |-> s.val, p |-> p]
  ELSE [how |-> "exc", res |-> "None", p |-> p]

RECURSIVE RunFrom(_, _, _, _, _)
RunFrom(k, i, p, step, ran) ==
  IF i > Len(k.body)
    THEN [how |-> "return", res |-> "None", p |-> p, ran |-> ran]
  ELSE LET o == ExecStmt(k.args, k.body[i], p, step)
       IN IF o.how = "next"
            THEN RunFrom(k, i + 1, o.p, step, Append(ran, k.body[i]))
            ELSE [how |-> o.how, res |-> o.res, p |-> o.p,
                  ran |-> Append(ran, k.body[i])]

PyFunc(k, p, step) == RunFrom(k, 1, p, step, << >>)

----------------------------------------------------------------------------
(* Kernel.execute_python: the body of `while dt_pos > 0`                   *)

Sign(d) == IF d > 0 THEN 1 ELSE -1

DtPosUnclipped(p, e) == Abs(p.dt)

DtPos(p, e) == Min(Abs(p.dt), Abs(e - p.time))

(* try: res = self.pyfunc(...) except FieldSamplingError / Exception;       *)
(* escapes: the exception leaves execute_python                            *)
CaughtOnlySampling(o) ==
  IF o.how = "fse"
    THEN [res |-> "ErrorOutOfBounds", escapes |-> FALSE,
          p |-> [o.p EXCEPT !.exception = "FieldSamplingError"]]
  ELSE [res |-> o.res, escapes |-> (o.how = "exc"), p |-> o.p]

Caught(o) ==
  IF o.how = "fse"
    THEN [res |-> "ErrorOutOfBounds", escapes |-> FALSE,
          p |-> [o.p EXCEPT !.exception = "FieldSamplingError"]]
  ELSE IF o.how = "exc"
    THEN [res |-> "Error", escapes |-> FALSE,
          p |-> [o.p EXCEPT !.exception = "Exception"]]
  ELSE [res |-> o.res, escapes |-> FALSE, p |-> o.p]

(* if res is not None: p.state = res *)
UpdateState(p, res) == IF res # "None" THEN [p EXCEPT !.state = res] ELSE p

AdvancesAlsoOnRepeat(res) == res \in {"None", "Success", "Repeat"}

Advances(res) == res = "None" \/ res = "Success"

RepeatsNever(res) == FALSE

Repeats(res) == res = "Repeat"

(* One pass through the while body for particle p with the given dt_pos:   *)
(* the particle after it, whether the loop continues, and the new dt_pos.  *)
WhileBody(k, p, e, d, dtp) ==
  LET step == Sign(d) * dtp
      o    == PyFunc(k, p, step)
      c    == Caught(o)
      p1   == UpdateState(c.p, c.res)
      p2   == IF Advances(c.res) THEN [p1 EXCEPT !.time = @ + step] ELSE p1
      cont == Advances(c.res) \/ Repeats(c.res)
  IN [p |-> p2, called |-> o.p, res |-> c.res, how |-> o.how, ran |-> o.ran,
      step |-> step, escapes |-> c.escapes, cont |-> cont,
      dt_pos |-> IF cont THEN DtPos(p2, e) ELSE dtp]

(* `break` leaves the while loop only: the for loop goes on with the next  *)
(* particle                                                                *)
AfterBreakEndsSweep(i, n) == n + 1

AfterBreak(i, n) == i + 1

----------------------------------------------------------------------------
(* Kernel.execute: deletion, the recovery map, the recovery kernels        *)

(* indices = [i for i, p in enumerate(pset.particles) if p.state in [Delete]] *)
DeletedIndicesNone(ps) == {}

DeletedIndices(ps) == {i \in 1..Len(ps) : ps[i].state \in {"Delete"}}

(* ParticleSet.remove(list_of_indices) *)
RemoveIndicesFirstOnly(ps, indices) ==
  IF indices = {} THEN ps
  ELSE SelectIdx(ps, (1..Len(ps)) \ {CHOOSE i \in indices : \A j \in indices : i <= j})

RemoveIndices(ps, indices) == SelectIdx(ps, (1..Len(ps)) \ indices)

RemoveDeletedFrom(ps) == RemoveIndices(ps, DeletedIndices(ps))

(* [p for p in pset.particles if p.state not in [Success, Repeat]] *)
ErrorParticlesAll(ps) == [i \in 1..Len(ps) |-> ps[i].id]

ErrorParticles(ps) ==
  LET bad == {i \in 1..Len(ps) : ps[i].state \notin {"Success", "Repeat"}}
      sel == SelectIdx(ps, bad)
  IN [i \in 1..Len(sel) |-> sel[i].id]

(* recovery_map = recovery_base_map.copy(); recovery_map.update(recovery) *)
NoOverride == [c \in {} |-> "-"]

MergeMapsBaseWins(base, rec) ==
  [c \in DOMAIN base \cup DOMAIN rec |->
     IF c \in DOMAIN base THEN base[c] ELSE rec[c]]

MergeMaps(base, rec) ==
  [c \in DOMAIN base \cup DOMAIN rec |->
     IF c \in DOMAIN rec THEN rec[c] ELSE base[c]]

(* The built-in map: ErrorOutOfBounds and Error mark the particle Delete *)
BaseMap == [c \in {"ErrorOutOfBounds", "Error"} |-> "delete"]

(* The recovery kernels: the default, and two a caller may pass: one that  *)
(* puts a particle that left the domain back in at the opposite boundary,  *)
(* one that changes nothing                                                *)
RecoveryKernels == {"delete", "to_domain", "keep"}

ApplyRecovery(rk, p) ==
  IF rk = "delete" THEN [p EXCEPT !.state = "Delete"]
  ELSE IF rk = "to_domain"
    THEN [p EXCEPT !.lon = IF @ > DomainMax THEN 0
                            ELSE IF @ < 0 THEN DomainMax ELSE @]
  ELSE p

(* lines 183-184: p.state = ErrorCode.Success, then recovery_kernel(p) *)
RecoverOneResetAfter(rk, p) == [ApplyRecovery(rk, p) EXCEPT !.state = "Success"]

RecoverOne(rk, p) == ApplyRecovery(rk, [p EXCEPT !.state = "Success"])

IndexOf(ps, id) == CHOOSE i \in 1..Len(ps) : ps[i].id = id

----------------------------------------------------------------------------
(* The inputs of the model *)

Lons == 0..DomainMax

InitTimes == {-1, 1}

PDts == {-1, 0, 2}

DtArgs == {-1, 1}

EndTimes == 0..MaxEnd

Particle(id, lon, time, pdt) ==
  [id |-> id, lon |-> lon, time |-> time, dt |-> pdt,
   state |-> "Success", exception |-> "none"]

(* The sets of at most n particles, with ids 1..n; p.dt is set-wide *)
ParticleSets(n) ==
  UNION { { [i \in 1..m |-> Particle(i, f[i][1], f[i][2], pdt)] :
            f \in [1..m -> Lons \X InitTimes], pdt \in PDts } : m \in 0..n }

Kernels ==
  { AdvectionEE, DeleteKernel, RepeatKernel, FailKernel,
    Merge(DeleteKernel, OkKernel), Merge(AdvectionEE, DeleteKernel) }

Overrides ==
  { NoOverride,
    [c \in {"ErrorOutOfBounds"} |-> "to_domain"],
    [c \in {"Error"} |-> "keep"] }

NoCall ==
  [pid |-> 0, time |-> 0, step |-> 0, res |-> "None", how |-> "none",
   ran |-> << >>, sweep |-> 0, tick |-> 0]

NoKernel == MkKernel("", "-", << >>)

Ids(ps) == {ps[i].id : i \in 1..Len(ps)}

----------------------------------------------------------------------------
(* JIT kernels and the compile cache *)

Procs == 1..MaxProcs

(* A particle type: its class name and the cache key of its schema. Two    *)
(* particle classes with the same attributes share the schema key.         *)
PType(n, key) == [name |-> n, cache_key |-> key]

PTypes == {PType("P", "lon:f32"), PType("PA", "lon:f32")}

Field(n, u) == [name |-> n, units |-> u]

(* a JIT Kernel as __init__ receives it: function name, particle type, the *)
(* fields its body samples, and the body                                   *)
JitKernel(f, pt, flds, b) ==
  [funcname |-> f, ptype |-> pt, field_args |-> flds, body |-> b]

FuncNames == {"K", "AK"}

FieldArgs == {<< Field("U", "Metres") >>, << Field("U", "Degrees") >>}

Bodies == {"b1", "b2"}

JitKernels ==
  {JitKernel(f, pt, flds, b) :
     f \in FuncNames, pt \in PTypes, flds \in FieldArgs, b \in Bodies}

(* line 74: self.name = "%s%s" % (ptype.name, self.funcname) *)
Name(k) == k.ptype.name \o k.funcname

(* "-".join(items) *)
RECURSIVE Join(_)
Join(items) ==
  IF Len(items) = 0 THEN ""
  ELSE IF Len(items) = 1 THEN items[1]
  ELSE items[1] \o "-" \o Join(Tail(items))

(* lines 96-97 *)
FieldKeys(k) ==
  Join([i \in 1..Len(k.field_args) |->
          k.field_args[i].name \o ":" \o k.field_args[i].units])

(* the digest of a string: md5 has no collisions among strings this short, *)
(* so the digest is a tag on the text it was computed from                 *)
md5(text) == [md5 |-> text]

(* lines 94-99: Kernel._cache_key *)
CacheKey(k) == md5(Name(k) \o k.ptype.cache_key \o FieldKeys(k))

(* lines 88-91: the paths below get_cache_dir() *)
SrcFile(k) == [base |-> CacheKey(k), ext |-> "c"]

LibFile(k) == [base |-> CacheKey(k), ext |-> "so"]

LogFile(k) == [base |-> CacheKey(k), ext |-> "log"]

Paths ==
  UNION {{SrcFile(k), LibFile(k)} : k \in JitKernels}

(* The generated C source, lines 78-86, in the two pieces it is written    *)
(* in: the kernel function, then the particle_loop around it               *)
Chunk(part, k) ==
  [part |-> part, funcname |-> k.funcname, schema |-> k.ptype.cache_key,
   fields |-> k.field_args, body |-> IF part = "kernel" THEN k.body ELSE ""]

Hole ==
  [part |-> "hole", funcname |-> "", schema |-> "", fields |-> << >>,
   body |-> ""]

CCode(k) == << Chunk("kernel", k), Chunk("loop", k) >>

NoCode == << >>

(* a file of the cache directory *)
Absent == [exists |-> FALSE, data |-> NoCode, by |-> 0]

FileOf(data, p) == [exists |-> TRUE, data |-> data, by |-> p]

(* a source text is whole when it is the generated code of some kernel *)
Complete(data) == \E k \in JitKernels : data = CCode(k)

(* a library exposes particle_loop when its source held the loop *)
HasLoop(data) == Len(data) = 2 /\ data[2].part = "loop"

(* os-level write of one piece at its offset into a file that may have     *)
(* been truncated by another writer in the meantime                        *)
WriteAt(data, i, chunk) ==
  [j \in 1..(IF Len(data) > i THEN Len(data) ELSE i) |->
     IF j = i THEN chunk
     ELSE IF j <= Len(data) THEN data[j] ELSE Hole]

(* a process that has not built a Kernel yet *)
NoJit == JitKernel("", PType("", ""), << >>, "")

NewProc ==
  [pc |-> "new", k |-> NoJit, ccode |-> NoCode, lib |-> NoCode,
   loaded |-> FALSE, execs |-> 0, gens |-> 0, compiles |-> 0,
   hit |-> FALSE, read |-> NoCode]

NoCache ==
  /\ files = [f \in Paths |-> Absent]
  /\ proc = [p \in Procs |-> NewProc]
  /\ compiledFrom = {}

----------------------------------------------------------------------------
(* Kernel.execute *)

(* recovery_base_map after execute built its recovery_map from a copy *)
BaseAfterAliased(base, rec) == MergeMaps(base, rec)

BaseAfter(base, rec) == base

(* lines 162-171: up to the start of the first sweep *)
Start(k, e, d, rec) ==
  /\ kernel' = k /\ endtime' = e /\ dt' = d /\ recovery' = rec
  /\ prevRecovery' = recovery
  /\ recovery_map' = MergeMaps(recovery_base_map, rec)
  /\ recovery_base_map' = BaseAfter(recovery_base_map, rec)
  /\ pc' = "for" /\ idx' = 1 /\ dt_pos' = 0 /\ sweep' = 1
  /\ error_particles' = << >> /\ ridx' = 0
  /\ last' = NoCall /\ visited' = {} /\ handled' = {} /\ snap' = << >>
  /\ fixed' = FALSE /\ marked' = {} /\ oob' = {}
  /\ UNCHANGED cacheVars

Execute(k, e, d, rec) ==
  /\ phase = "exec"
  /\ pc \in {"idle", "done"}
  /\ callsLeft > 0
  /\ callsLeft' = callsLeft - 1
  /\ Start(k, e, d, rec)
  /\ pset0' = particles
  /\ UNCHANGED << particles, phase, opA, opB, opC, resultL, added, returned,
                  removeArgs, before, alone >>

(* line 123-125: the next particle of the sweep *)
ForEnter ==
  /\ pc = "for" /\ idx <= Len(particles)
  /\ dt_pos' = DtPos(particles[idx], endtime)
  /\ visited' = visited \cup {particles[idx].id}
  /\ pc' = "while"
  /\ UNCHANGED << particles, idx, sweep, error_particles, ridx, callVars,
                  driverVars, last, handled, snap, fixed, marked, oob >>

(* line 123: the sweep is over *)
ForExit ==
  /\ pc = "for" /\ idx > Len(particles)
  /\ pc' = IF sweep = 1 THEN "remove1" ELSE "collect"
  /\ UNCHANGED << particles, idx, dt_pos, sweep, error_particles, ridx,
                  callVars, driverVars, last, visited, handled, snap, fixed,
                  marked, oob >>

(* lines 126-151: one kernel invocation *)
WhileStep ==
  /\ pc = "while" /\ dt_pos > 0
  /\ LET p == particles[idx]
         w == WhileBody(kernel, p, endtime, dt, dt_pos)
     IN /\ Abs(w.p.time) <= TimeCap
        /\ particles' = [particles EXCEPT ![idx] = w.p]
        /\ last' = [pid |-> p.id, time |-> p.time, step |-> w.step,
                    res |-> w.res, how |-> w.how, ran |-> w.ran,
                    sweep |-> sweep, tick |-> 1 - last.tick]
        /\ marked' = IF w.called.state = "Delete" \/ w.p.state = "Delete"
                       THEN marked \cup {p.id} ELSE marked
        /\ oob' = IF w.how = "fse" THEN oob \cup {p.id} ELSE oob
        /\ IF w.escapes
             THEN pc' = "escaped" /\ dt_pos' = dt_pos /\ idx' = idx
             ELSE IF w.cont
               THEN pc' = "while" /\ dt_pos' = w.dt_pos /\ idx' = idx
               ELSE /\ pc' = "for" /\ dt_pos' = dt_pos
                    /\ idx' = AfterBreak(idx, Len(particles))
  /\ UNCHANGED << sweep, error_particles, ridx, callVars, driverVars, visited,
                  handled, snap, fixed >>

(* line 126: dt_pos is 0, the particle is done *)
WhileExit ==
  /\ pc = "while" /\ dt_pos <= 0
  /\ pc' = "for" /\ idx' = idx + 1
  /\ UNCHANGED << particles, dt_pos, sweep, error_particles, ridx, callVars,
                  driverVars, last, visited, handled, snap, fixed, marked,
                  oob >>

(* lines 156-160, called at 174 and at 187; after 187 the core loop is     *)
(* re-run (lines 189-193)                                                  *)
RemoveDeleted ==
  /\ pc \in {"remove1", "remove2"}
  /\ particles' = RemoveDeletedFrom(particles)
  /\ IF pc = "remove1"
       THEN pc' = "collect" /\ idx' = idx /\ sweep' = sweep
            /\ visited' = visited
       ELSE pc' = "for" /\ idx' = 1 /\ sweep' = 2 /\ visited' = {}
  /\ before' = IF pc = "remove2" THEN RemoveDeletedFrom(particles) ELSE before
  /\ last' = IF pc = "remove2" THEN NoCall ELSE last
  /\ UNCHANGED << dt_pos, error_particles, ridx, callVars, opA, opB, opC,
                  resultL, pset0, added, returned, removeArgs, alone, handled,
                  snap, fixed, marked, oob >>

(* lines 177-179 and 195-196, 179: error_particles and the loop test *)
Collect ==
  /\ pc = "collect"
  /\ error_particles' = ErrorParticles(particles)
  /\ ridx' = 1
  /\ pc' = IF Len(ErrorParticles(particles)) > 0 THEN "recover" ELSE "done"
  /\ snap' = particles
  /\ fixed' = (sweep = 2 /\ particles = snap
               /\ Len(ErrorParticles(particles)) > 0)
  /\ handled' = {}
  /\ UNCHANGED << particles, idx, dt_pos, sweep, callVars, driverVars, last,
                  visited, marked, oob >>

(* lines 181-184: one error particle; a state the map lacks is a KeyError *)
Recover ==
  /\ pc = "recover" /\ ridx <= Len(error_particles)
  /\ LET i == IndexOf(particles, error_particles[ridx])
         p == particles[i]
     IN IF p.state \notin DOMAIN recovery_map
          THEN /\ pc' = "raised"
               /\ UNCHANGED << particles, ridx, marked, handled >>
          ELSE LET rk == recovery_map[p.state]
                   q  == RecoverOne(rk, p)
               IN /\ particles' = [particles EXCEPT ![i] = q]
                  /\ marked' = IF q.state = "Delete"
                                 THEN marked \cup {p.id} ELSE marked
                  /\ handled' = handled \cup
                       {[id |-> p.id, state |-> p.state, rk |-> rk]}
                  /\ ridx' = ridx + 1
                  /\ pc' = IF ridx = Len(error_particles)
                             THEN "remove2" ELSE "recover"
  /\ UNCHANGED << idx, dt_pos, sweep, error_particles, callVars, driverVars,
                  last, visited, snap, fixed, oob >>

ExecuteSteps ==
  \/ ForEnter
  \/ ForExit
  \/ WhileStep
  \/ WhileExit
  \/ RemoveDeleted
  \/ Collect
  \/ Recover

----------------------------------------------------------------------------
(* The executor: one call of execute on a set *)

Idle ==
  /\ recovery_base_map = BaseMap
  /\ pc = "idle"
  /\ kernel = NoKernel /\ endtime = 0 /\ dt = 1
  /\ recovery = NoOverride /\ prevRecovery = NoOverride
  /\ recovery_map = NoOverride
  /\ idx = 1 /\ dt_pos = 0 /\ sweep = 1
  /\ error_particles = << >> /\ ridx = 0
  /\ last = NoCall /\ visited = {} /\ handled = {} /\ snap = << >>
  /\ fixed = FALSE /\ marked = {} /\ oob = {}
  /\ opA = NoKernel /\ opB = NoKernel /\ opC = NoKernel /\ resultL = << >>
  /\ pset0 = particles /\ added = << >>
  /\ returned = << >> /\ removeArgs = << >> /\ before = << >>
  /\ alone = 0
  /\ NoCache

Init ==
  /\ particles \in ParticleSets(MaxParticles)
  /\ phase = "exec"
  /\ callsLeft = 1
  /\ Idle

Call == \E k \in Kernels, e \in EndTimes, d \in DtArgs, rec \in Overrides :
          Execute(k, e, d, rec)

Next ==
  \/ Call
  \/ ForEnter
  \/ ForExit
  \/ WhileStep
  \/ WhileExit
  \/ RemoveDeleted
  \/ Collect
  \/ Recover

Spec == Init /\ [][Next]_vars

(* One call of execute on a single particle, always continued: execute is  *)
(* synchronous, so once called it runs until it returns or raises          *)
InitOne ==
  /\ particles \in {<< Particle(1, l, 0, -1) >> : l \in Lons}
  /\ phase = "exec"
  /\ callsLeft = 1
  /\ Idle

FairSpec == InitOne /\ [][Next]_vars /\ WF_vars(ExecuteSteps)

(* Several calls of execute, one after the other, on a small set *)
InitCalls ==
  /\ particles \in ParticleSets(1)
  /\ phase = "exec"
  /\ callsLeft = MaxCalls
  /\ Idle

SpecCalls == InitCalls /\ [][Next]_vars

(* Concatenated kernels: (A+B)+C and then A+(B+C) on the same set with the *)
(* same arguments, or A+B alone                                            *)
Library == {AdvectionEE, DeleteKernel, OkKernel, DeleteP}

MergeOverrides == {NoOverride, [c \in {"ErrorOutOfBounds"} |-> "to_domain"]}

Terminal == pc \in {"done", "raised", "escaped"}

InitMerge ==
  /\ particles \in ParticleSets(1)
  /\ phase = "merge"
  /\ callsLeft = 0
  /\ recovery_base_map = BaseMap
  /\ pc = "idle"
  /\ kernel = NoKernel /\ endtime = 0 /\ dt = 1
  /\ recovery = NoOverride /\ prevRecovery = NoOverride
  /\ recovery_map = NoOverride
  /\ idx = 1 /\ dt_pos = 0 /\ sweep = 1
  /\ error_particles = << >> /\ ridx = 0
  /\ last = NoCall /\ visited = {} /\ handled = {} /\ snap = << >>
  /\ fixed = FALSE /\ marked = {} /\ oob = {}
  /\ opA \in Library /\ opB \in Library /\ opC \in Library
  /\ resultL = << >>
  /\ pset0 = particles /\ added = << >>
  /\ returned = << >> /\ removeArgs = << >> /\ before = << >>
  /\ alone = 0
  /\ NoCache

(* ((A + B) + C).execute(pset, ...) : __add__ is merge, lines 207-210 *)
CallLeft == \E e \in EndTimes, d \in DtArgs, rec \in MergeOverrides :
  /\ phase = "merge" /\ pc = "idle"
  /\ phase' = "left"
  /\ Start(Merge(Merge(opA, opB), opC), e, d, rec)
  /\ pset0' = particles
  /\ UNCHANGED << particles, callsLeft, opA, opB, opC, resultL, added,
                  returned, removeArgs, before, alone >>

(* (A + (B + C)).execute(pset, ...) on a copy of the same set *)
CallRight ==
  /\ phase = "left" /\ Terminal
  /\ phase' = "right"
  /\ resultL' = << [particles |-> particles, pc |-> pc] >>
  /\ particles' = pset0
  /\ Start(Merge(opA, Merge(opB, opC)), endtime, dt, recovery)
  /\ UNCHANGED << callsLeft, opA, opB, opC, pset0, added, returned,
                  removeArgs, before, alone >>

(* (A + B).execute(pset, ...) *)
CallPair == \E e \in EndTimes, d \in DtArgs, rec \in MergeOverrides :
  /\ phase = "merge" /\ pc = "idle"
  /\ phase' = "pair"
  /\ Start(Merge(opA, opB), e, d, rec)
  /\ pset0' = particles
  /\ UNCHANGED << particles, callsLeft, opA, opB, opC, resultL, added,
                  returned, removeArgs, before, alone >>

NextMerge ==
  \/ CallLeft
  \/ CallRight
  \/ CallPair
  \/ ForEnter
  \/ ForExit
  \/ WhileStep
  \/ WhileExit
  \/ RemoveDeleted
  \/ Collect
  \/ Recover

SpecMerge == InitMerge /\ [][NextMerge]_vars

(* One particle with the others and without them: execute on a set, then   *)
(* with the same arguments on a set that holds one of its particles only   *)
InitAlone ==
  /\ particles \in ParticleSets(MaxParticles)
  /\ phase = "start"
  /\ callsLeft = 0
  /\ Idle

CallTogether ==
  \E k \in Kernels, e \in EndTimes, d \in DtArgs, rec \in Overrides :
    /\ phase = "start" /\ pc = "idle"
    /\ phase' = "together"
    /\ Start(k, e, d, rec)
    /\ pset0' = particles
    /\ UNCHANGED << particles, callsLeft, opA, opB, opC, resultL, added,
                    returned, removeArgs, before, alone >>

CallAlone == \E i \in 1..Len(pset0) :
  /\ phase = "together" /\ Terminal
  /\ phase' = "alone"
  /\ resultL' = << [particles |-> particles, pc |-> pc] >>
  /\ particles' = << pset0[i] >>
  /\ Start(kernel, endtime, dt, recovery)
  /\ alone' = pset0[i].id
  /\ UNCHANGED << callsLeft, opA, opB, opC, pset0, added, returned,
                  removeArgs, before >>

NextAlone ==
  \/ CallTogether
  \/ CallAlone
  \/ ForEnter
  \/ ForExit
  \/ WhileStep
  \/ WhileExit
  \/ RemoveDeleted
  \/ Collect
  \/ Recover

SpecAlone == InitAlone /\ [][NextAlone]_vars

(* ParticleSet.add: a sequence of add operations on a set *)
AddRowsFront(ps, rows) == rows \o ps

AddRows(ps, rows) == ps \o rows

(* the particles handed to add, numbered on from the rows present *)
Incoming(n, first) ==
  { [i \in 1..n |-> Particle(first + i, f[i], 0, 1)] : f \in [1..n -> Lons] }

InitPset ==
  /\ particles \in ParticleSets(MaxParticles)
  /\ phase = "pset"
  /\ callsLeft = 0
  /\ Idle

(* pset.add(Particle(...)), test_pset_add_explicit *)
Add == \E rows \in Incoming(1, Len(particles)) :
  /\ phase = "pset"
  /\ Len(particles) + 1 <= MaxSize
  /\ particles' = AddRows(particles, rows)
  /\ added' = added \o rows
  /\ UNCHANGED << pc, idx, dt_pos, sweep, error_particles, ridx, callVars,
                  opA, opB, opC, resultL, pset0, returned, removeArgs, before, alone,
                  last, visited, handled, snap, fixed, marked, oob >>

(* pset1.add(pset2), test_pset_merge_inplace *)
AddSet == \E n \in 0..MaxParticles : \E rows \in Incoming(n, Len(particles)) :
  /\ phase = "pset"
  /\ Len(particles) + n <= MaxSize
  /\ particles' = AddRows(particles, rows)
  /\ added' = added \o rows
  /\ UNCHANGED << pc, idx, dt_pos, sweep, error_particles, ridx, callVars,
                  opA, opB, opC, resultL, pset0, returned, removeArgs, before, alone,
                  last, visited, handled, snap, fixed, marked, oob >>

NextPset ==
  \/ Add
  \/ AddSet

SpecPset == InitPset /\ [][NextPset]_vars

(* The per-particle state machine of the specification: sign,              *)
(* dt_remaining, and one pass of `while dt_remaining > 0`                  *)
MachineSign(d) == IF d > 0 THEN 1 ELSE -1

MachineRemaining(p, e) == Min(Abs(p.dt), Abs(e - p.time))

MachineStep(k, p, e, d, rem) ==
  LET step == MachineSign(d) * rem
      o    == PyFunc(k, p, step)
      res  == CASE o.how = "fse" -> "ErrorOutOfBounds"
                [] o.how = "exc" -> "Error"
                [] OTHER -> o.res
      exc  == CASE o.how = "fse" -> "FieldSamplingError"
                [] o.how = "exc" -> "Exception"
                [] OTHER -> o.p.exception
      p1   == [o.p EXCEPT !.exception = exc,
                          !.state = IF res # "None" THEN res ELSE @]
      sw   == IF res = "None" THEN "Success" ELSE res
      p2   == IF sw = "Success" THEN [p1 EXCEPT !.time = @ + step] ELSE p1
  IN [time |-> p.time, step |-> step, p |-> p2,
      cont |-> sw \in {"Success", "Repeat"},
      rem  |-> MachineRemaining(p2, e)]

(* ParticleSet.remove: a sequence of remove operations on a set *)

(* the row a Python index names in a set of n rows, counted from 1 *)
PyPosFromFront(n, index) == IF index < 0 THEN -index ELSE index + 1

PyPos(n, index) == IF index < 0 THEN n + index + 1 ELSE index + 1

ValidIndex(n) == (-n)..(n - 1)

(* the rows a list of indices names, each once *)
Positions(n, list) == {PyPos(n, list[k]) : k \in 1..Len(list)}

(* the lists of one or two indices handed to remove *)
IndexLists(n) ==
  UNION { [1..l -> 0..(n - 1)] : l \in 1..2 }

(* pset.remove(index): the set without the row, and the row *)
RemoveAt(ps, index) ==
  [rest |-> RemoveIndices(ps, {PyPos(Len(ps), index)}),
   row  |-> ps[PyPos(Len(ps), index)]]

(* sets of up to MaxSize rows, told apart by id and position *)
RemoveSets ==
  { [i \in 1..m |-> Particle(i, i % (DomainMax + 1), 0, 1)] : m \in 0..MaxSize }

InitRemove ==
  /\ particles \in RemoveSets
  /\ phase = "remove"
  /\ callsLeft = 0
  /\ Idle

(* p = pset.remove(index), test_pset_remove_index *)
Remove == \E index \in ValidIndex(Len(particles)) :
  /\ phase = "remove"
  /\ particles' = RemoveAt(particles, index).rest
  /\ returned' = Append(returned, RemoveAt(particles, index).row)
  /\ removeArgs' = Append(removeArgs, [index |-> index, list |-> << >>])
  /\ before' = particles
  /\ UNCHANGED << pc, idx, dt_pos, sweep, error_particles, ridx, callVars,
                  opA, opB, opC, resultL, pset0, added, alone, last, visited,
                  handled, snap, fixed, marked, oob >>

(* pset.remove(indices), as remove_deleted calls it (line 160) *)
RemoveList == \E list \in IndexLists(Len(particles)) :
  /\ phase = "remove"
  /\ particles' = RemoveIndices(particles, Positions(Len(particles), list))
  /\ removeArgs' = Append(removeArgs, [index |-> 0, list |-> list])
  /\ before' = particles
  /\ UNCHANGED << pc, idx, dt_pos, sweep, error_particles, ridx, callVars,
                  opA, opB, opC, resultL, pset0, added, returned, alone, last,
                  visited, handled, snap, fixed, marked, oob >>

NextRemove ==
  \/ Remove
  \/ RemoveList

SpecRemove == InitRemove /\ [][NextRemove]_vars

----------------------------------------------------------------------------
(* Properties of execute *)

InSet(id) == id \in Ids(particles)

Row(id) == particles[IndexOf(particles, id)]

Row0(id) == pset0[IndexOf(pset0, id)]

(* C1, as claimed: whenever execute returns, every particle still in the   *)
(* set has time equal to endtime.                                          *)
C1_AllAtEndtime ==
  pc = "done" => \A i \in 1..Len(particles) : particles[i].time = endtime

(* C1, amended: whenever execute returns, every particle still in the set  *)
(* has time equal to endtime or has p.dt equal to 0.                       *)
C1_AtEndtimeOrZeroDt ==
  pc = "done" =>
    \A i \in 1..Len(particles) :
      particles[i].time = endtime \/ particles[i].dt = 0

(* execute has returned with a particle that it had to step to endtime *)
C1_Witness ==
  /\ pc = "done"
  /\ \E i \in 1..Len(particles) :
       /\ particles[i].time = endtime
       /\ Row0(particles[i].id).time # endtime
       /\ last.pid = particles[i].id

(* C2: for a kernel that returns Repeat on every invocation, execute       *)
(* terminates, and no invocation advances the particle's time.             *)
C2_RepeatTerminates ==
  /\ (kernel = RepeatKernel /\ pc = "for") ~> (pc = "done")
  /\ [][kernel = RepeatKernel /\ pc = "while" =>
          \A i \in 1..Len(particles) : particles'[i].time = particles[i].time]_vars

(* C3: when error_particles is recomputed after a recovery round and the   *)
(* set is exactly as it was the round before, execute escalates to an      *)
(* error instead of starting another recovery round.                       *)
C3_FixedPointEscalates == fixed => pc \in {"raised", "escaped"}

Failure == {"Error", "ErrorOutOfBounds"}

(* C4: an error raised by the kernel never escapes execute and never stops *)
(* the sweep (every particle of the set is reached before the sweep ends), *)
(* and every failing particle is handed to the recovery kernel that the    *)
(* recovery map holds for its state.                                       *)
C4_KernelErrorsAreRecovered ==
  /\ pc # "escaped"
  /\ pc \in {"remove1", "collect"} => Ids(particles) \subseteq visited
  /\ pc = "remove2" =>
       \A i \in 1..Len(snap) :
         snap[i].state \in Failure =>
           [id |-> snap[i].id, state |-> snap[i].state,
            rk |-> recovery_map[snap[i].state]] \in handled
  /\ pc = "raised" =>
       \A i \in 1..Len(particles) : particles[i].state \notin Failure

OobToDomain ==
  /\ "ErrorOutOfBounds" \in DOMAIN recovery
  /\ recovery["ErrorOutOfBounds"] = "to_domain"

C6_DeletionKernel ==
  pc = "done" =>
    /\ \A i \in 1..Len(particles) : particles[i].state # "Delete"
    /\ \A id \in Ids(pset0) \ marked : InSet(id)
    /\ \A i, j \in 1..Len(particles) :
         i < j => IndexOf(pset0, particles[i].id) < IndexOf(pset0, particles[j].id)
    /\ Len(particles) = Len(pset0) - Cardinality(marked)

(* C7: the recovery map of a call is the built-in map with the call's own  *)
(* overrides taking precedence, the built-in map is never changed, and the *)
(* recovery kernel a failing particle is handed to is decided by the       *)
(* built-in map and the overrides of this call alone.                      *)
C7_RecoveryMapPerCall ==
  /\ recovery_base_map = BaseMap
  /\ pc # "idle" =>
       /\ DOMAIN recovery_map = DOMAIN BaseMap \cup DOMAIN recovery
       /\ \A c \in DOMAIN recovery_map :
            recovery_map[c] = IF c \in DOMAIN recovery THEN recovery[c]
                              ELSE BaseMap[c]
  /\ \A h \in handled :
       h.rk = IF h.state \in DOMAIN recovery THEN recovery[h.state]
              ELSE BaseMap[h.state]

(* a later call without overrides hands a particle to the default kernel   *)
(* for a state that the call before it had overridden                      *)
C7_Witness ==
  /\ callsLeft < MaxCalls - 1
  /\ recovery = NoOverride
  /\ \E h \in handled : h.state \in DOMAIN prevRecovery /\ h.rk = "delete"

(* C8: concatenation is associative: for all kernels A, B, C and every set, *)
(* executing A+(B+C) leaves every particle exactly as executing (A+B)+C    *)
(* on the same set with the same arguments did, and ends the same way.     *)
C8_MergeAssociative ==
  (phase = "right" /\ Terminal) =>
    /\ particles = resultL[1].particles
    /\ pc = resultL[1].pc

(* both runs ended and moved or removed a particle, with three distinct    *)
(* operands                                                                *)
C8_Witness ==
  /\ phase = "right" /\ pc = "done"
  /\ particles # pset0
  /\ opA # opB /\ opB # opC /\ opA # opC

(* The statements of A and then of B, as A + B is to run them *)
PairBody == opA.body \o opB.body

IsPrefix(s, t) == Len(s) <= Len(t) /\ SubSeq(t, 1, Len(s)) = s

Invoked == phase = "pair" /\ last.pid # 0

(* the time of the particle of the last invocation moved by one step or    *)
(* not at all                                                              *)
OneAdvance ==
  InSet(last.pid) =>
    Row(last.pid).time =
      last.time + (IF last.res \in {"None", "Success"} THEN last.step ELSE 0)

(* C9 as stated: every invocation of A+B runs all of A's statements and    *)
(* then all of B's, within one time step.                                  *)
C9_RunsAllOfBoth ==
  Invoked => (last.ran = PairBody /\ OneAdvance)

(* C9: every invocation of A+B runs the statements of A and then of B in   *)
(* that order, up to the first one that returns or raises (all of them if  *)
(* none does), and advances the particle's time at most once.              *)
C9_RunsInOrderUntilReturn ==
  Invoked =>
    /\ IsPrefix(last.ran, PairBody)
    /\ last.ran # PairBody => last.how \in {"return", "fse", "exc"}
    /\ last.how = "next" => last.ran = PairBody
    /\ OneAdvance

(* an invocation ran a statement of A and then one of B and advanced time  *)
C9_Witness ==
  /\ Invoked
  /\ last.ran = PairBody
  /\ opA # opB
  /\ last.step # 0
  /\ InSet(last.pid) /\ Row(last.pid).time = last.time + last.step

(* C10: after any sequence of add operations the set is the initial rows,  *)
(* unchanged and in place, followed by the added particles in the order    *)
(* added with their values unchanged; size is the initial size plus the    *)
(* number added.                                                           *)
C10_AddAppends ==
  phase = "pset" =>
    /\ Len(particles) = Len(pset0) + Len(added)
    /\ SubSeq(particles, 1, Len(pset0)) = pset0
    /\ SubSeq(particles, Len(pset0) + 1, Len(particles)) = added

(* a set that had rows received more particles than one add can bring *)
C10_Witness ==
  /\ phase = "pset"
  /\ Len(pset0) >= 1
  /\ Len(added) > MaxParticles

(* The most recent remove call and what it was given *)
LastRemove == removeArgs[Len(removeArgs)]

ByIndex == removeArgs # << >> /\ LastRemove.list = << >>

ByList == removeArgs # << >> /\ LastRemove.list # << >>

Reverse(s) == [i \in 1..Len(s) |-> s[Len(s) + 1 - i]]

(* C11: remove(index) removes exactly one row, the one the index names     *)
(* (a negative index counts from the end), and returns it with its values; *)
(* after only remove(-1) calls the rows returned are the last rows of the  *)
(* initial set in reverse order, all of them once the set is empty.        *)
C11_RemoveIndex ==
  /\ ByIndex =>
       LET n   == Len(before)
           pos == IF LastRemove.index < 0 THEN n + LastRemove.index + 1
                  ELSE LastRemove.index + 1
       IN /\ Len(particles) = n - 1
          /\ returned[Len(returned)] = before[pos]
          /\ \A k \in 1..(n - 1) :
               particles[k] = IF k < pos THEN before[k] ELSE before[k + 1]
  /\ (\A k \in 1..Len(removeArgs) :
         removeArgs[k].list = << >> /\ removeArgs[k].index = -1) =>
       /\ pset0 = particles \o Reverse(returned)
       /\ Len(particles) = 0 => returned = Reverse(pset0)

(* remove(-1) has emptied a set of several rows *)
C11_Witness ==
  /\ phase = "remove"
  /\ Len(pset0) > MaxParticles
  /\ Len(particles) = 0
  /\ \A k \in 1..Len(removeArgs) :
       removeArgs[k].list = << >> /\ removeArgs[k].index = -1

(* C12: remove(list) deletes exactly the rows at the listed positions of   *)
(* the set as it was before the call; the other rows keep their order and  *)
(* values, and size drops by the number of distinct indices listed.        *)
C12_RemoveList ==
  ByList =>
    LET n      == Len(before)
        listed == {LastRemove.list[k] + 1 : k \in 1..Len(LastRemove.list)}
    IN /\ Len(particles) = n - Cardinality(listed)
       /\ \A k \in 1..n :
            (k \in listed) <=> (before[k] \notin Range(particles))
       /\ \A i, j \in 1..Len(particles) :
            i < j => IndexOf(before, particles[i].id)
                       < IndexOf(before, particles[j].id)

(* a list that names a row twice, or two rows out of order, was removed    *)
(* from a set with other rows                                              *)
C12_Witness ==
  /\ ByList
  /\ Len(LastRemove.list) = 2
  /\ LastRemove.list[1] >= LastRemove.list[2]
  /\ Len(particles) >= 2

(* The rows with the given id in a set: one row, or none *)
RowsOf(ps, id) == {ps[i] : i \in {j \in 1..Len(ps) : ps[j].id = id}}

(* C13: a particle ends execute the same way whatever other particles are  *)
(* in the set: when execute on the set and execute on the particle alone   *)
(* have both ended, the particle is in both sets or in neither, with the   *)
(* same time, state and attributes.                                        *)
C13_OwnInputsOnly ==
  (phase = "alone" /\ Terminal) =>
    RowsOf(particles, alone) = RowsOf(resultL[1].particles, alone)

(* The most recent invocation failed and nothing has touched its particle  *)
(* since                                                                   *)
JustFailed ==
  /\ last.how \in {"fse", "exc"}
  /\ last.sweep = sweep
  /\ pc \in {"for", "while", "remove1", "collect", "escaped"}

(* C14: an invocation that fails in field sampling leaves its particle in  *)
(* state ErrorOutOfBounds, any other failure in state Error; either way    *)
(* the exception is kept on the particle, the particle's time is as it was *)
(* before the invocation, and the sweep does not step the particle again.  *)
C14_FailedInvocation ==
  /\ JustFailed =>
       /\ InSet(last.pid)
       /\ Row(last.pid).state =
            IF last.how = "fse" THEN "ErrorOutOfBounds" ELSE "Error"
       /\ Row(last.pid).exception =
            IF last.how = "fse" THEN "FieldSamplingError" ELSE "Exception"
       /\ Row(last.pid).time = last.time
       /\ pc \in {"for", "while"} => idx > IndexOf(particles, last.pid)
  /\ pc = "while" => particles[idx].state \notin Failure
  /\ \A i \in 1..Len(particles) :
       particles[i].state \in Failure => particles[i].exception # "none"

(* the sweep has gone on to a later particle after an invocation failed *)
C14_Witness ==
  /\ JustFailed
  /\ pc = "while"
  /\ particles[idx].id # last.pid
  /\ Row(last.pid).state \in Failure

(* C15: the core loop does what the state machine of the specification     *)
(* does: dt_pos is the machine's dt_remaining whenever the while loop is   *)
(* entered or continued, each invocation is made with the machine's step,  *)
(* and one pass of the while body leaves the particle, the decision to go  *)
(* on, and the next dt_pos as one step of the machine does.                *)
C15_RefinesStateMachine ==
  /\ pc = "while" => dt_pos = MachineRemaining(particles[idx], endtime)
  /\ (pc = "while" /\ dt_pos > 0) =>
       LET w == WhileBody(kernel, particles[idx], endtime, dt, dt_pos)
           m == MachineStep(kernel, particles[idx], endtime, dt, dt_pos)
       IN /\ w.step = m.step
          /\ w.p = m.p
          /\ w.cont = m.cont
          /\ w.cont => w.dt_pos = m.rem
  /\ (last.pid # 0 /\ phase = "exec") =>
       last.step = MachineSign(dt)
                     * Min(Abs(Row0(last.pid).dt), Abs(endtime - last.time))

(* the loop goes on after an advancing invocation, with a step cut short   *)
(* by endtime                                                              *)
C15_Witness ==
  /\ pc = "while" /\ dt_pos > 0
  /\ last.pid = particles[idx].id
  /\ last.res = "None"
  /\ dt_pos < Abs(particles[idx].dt)

(* The particles the current recovery round handed to a kernel that marks  *)
(* Delete                                                                  *)
DeletedByRecovery == {h.id : h \in {g \in handled : g.rk = "delete"}}

(* C16: in a recovery round the state a recovery kernel writes is kept     *)
(* (the reset to Success comes first), and a particle a recovery kernel    *)
(* marked Delete is out of the set before the core loop is re-run, so the  *)
(* re-run never reaches it.                                                *)
C16_RecoveryRound ==
  /\ pc \in {"recover", "remove2", "raised"} =>
       \A h \in handled :
         /\ InSet(h.id)
         /\ Row(h.id).state = IF h.rk = "delete" THEN "Delete" ELSE "Success"
  /\ (sweep = 2 /\ pc \in {"for", "while", "collect"}) =>
       /\ \A id \in DeletedByRecovery : ~InSet(id)
       /\ visited \cap DeletedByRecovery = {}
       /\ last.pid \notin DeletedByRecovery

(* the core loop is re-run on the rest of the set after a particle was     *)
(* marked Delete by its recovery kernel and removed                        *)
C16_Witness ==
  /\ sweep = 2 /\ pc = "while"
  /\ DeletedByRecovery # {}
  /\ particles[idx].id \in visited

(* The re-run of the core loop is under way or just over *)
InRerun == sweep = 2 /\ pc \in {"for", "while", "collect"}

(* C17: the re-run of the core loop does not invoke the kernel on a        *)
(* particle whose time was endtime when the re-run began, and leaves that  *)
(* particle in the set with its time, state and attributes as they were.   *)
C17_RerunSkipsFinished ==
  InRerun =>
    \A i \in 1..Len(before) :
      before[i].time = endtime =>
        /\ InSet(before[i].id)
        /\ Row(before[i].id) = before[i]
        /\ last.pid # before[i].id

(* a re-run has stepped one particle and passed over another that was at   *)
(* endtime                                                                 *)
C17_Witness ==
  /\ InRerun /\ pc = "collect"
  /\ last.pid # 0
  /\ \E i \in 1..Len(before) :
       before[i].time = endtime /\ before[i].dt # 0

(* The most recent invocation advanced its particle's time, and nothing    *)
(* has touched the particle since                                          *)
JustAdvanced ==
  /\ last.pid # 0 /\ last.sweep = sweep
  /\ pc \in {"for", "while"}
  /\ InSet(last.pid)
  /\ Row(last.pid).time # last.time

AllStatesInErrorCode ==
  \A i \in 1..Len(particles) : particles[i].state \in ErrorCode

JustInvoked ==
  /\ last.pid # 0 /\ last.sweep = sweep
  /\ pc \in {"for", "while"}
  /\ InSet(last.pid)

(* C19: no kernel step moves a particle's time further from endtime: the   *)
(* distance to endtime does not grow, a step changes time by at most       *)
(* |p.dt|, and time does not pass endtime.                                 *)
C19_NeverFurtherFromEndtime ==
  JustInvoked =>
    LET t0 == last.time
        t1 == Row(last.pid).time
    IN /\ Abs(endtime - t1) <= Abs(endtime - t0)
       /\ Abs(t1 - t0) <= Abs(Row(last.pid).dt)
       /\ (endtime - t0) * (endtime - t1) >= 0

(* The particles the sweep has reached, by position: those before idx, and *)
(* the one at idx once the while loop holds it                             *)
Reached ==
  {particles[i].id :
     i \in {j \in 1..Len(particles) : j < idx \/ (j = idx /\ pc = "while")}}

Live(p) == p.state \in {"Success", "Repeat"}

InSweep == pc \in {"for", "while"}

(* C20 as stated: within a sweep the particles are visited in insertion    *)
(* order, and when the kernel is invoked on a particle every particle      *)
(* before it has reached endtime or left the loop with a non-live state.   *)
C20_OneParticleAtATime ==
  InSweep =>
    /\ visited = Reached
    /\ last.pid # 0 => last.pid \in Reached
    /\ \A i \in 1..Len(particles) :
         i < idx => particles[i].time = endtime \/ ~Live(particles[i])

(* C20: within a sweep the particles are visited in insertion order, and   *)
(* when the kernel is invoked on a particle every particle before it has   *)
(* reached endtime, left the loop with a non-live state, or has p.dt = 0   *)
(* and was never stepped.                                                  *)
C20_OneParticleAtATimeOrZeroDt ==
  InSweep =>
    /\ visited = Reached
    /\ last.pid # 0 => last.pid \in Reached
    /\ \A i \in 1..Len(particles) :
         i < idx =>
           \/ particles[i].time = endtime
           \/ ~Live(particles[i])
           \/ particles[i].dt = 0 /\ last.pid # particles[i].id

(* the kernel has been invoked on the second particle after the first was  *)
(* stepped to endtime                                                      *)
C20_Witness ==
  /\ pc = "while" /\ idx = 2
  /\ last.pid = particles[2].id
  /\ particles[1].time = endtime
  /\ particles[1].time # pset0[1].time

----------------------------------------------------------------------------
(* The compile cache: processes that build a JIT Kernel and execute it *)

engineVars ==
  << particles, pc, idx, dt_pos, sweep, error_particles, ridx, kernel,
     endtime, dt, recovery, prevRecovery, recovery_map, recovery_base_map,
     callsLeft, phase, driverVars, last, visited, handled, snap, fixed,
     marked, oob >>

At(p, where) == proc[p].pc = where

(* lines 76-92: __init__ of a JIT Kernel generates the C source, derives   *)
(* the paths from the cache key and leaves the library unloaded            *)
Construct == \E p \in Procs, k \in JitKernels :
  /\ At(p, "new")
  /\ proc' = [proc EXCEPT ![p] =
       [@ EXCEPT !.pc = "ready", !.k = k, !.ccode = CCode(k),
                 !.gens = @ + 1, !.lib = NoCode, !.loaded = FALSE,
                 !.hit = files[LibFile(k)].exists]]
  /\ UNCHANGED << files, compiledFrom, engineVars >>

(* the caller of a JIT kernel: a library that is loaded is used, one that  *)
(* is on disk is loaded, and only a missing one is compiled                *)
BeginExecute == \E p \in Procs :
  /\ At(p, "ready")
  /\ proc[p].execs < MaxExec
  /\ proc' = [proc EXCEPT ![p] =
       IF proc[p].loaded THEN [@ EXCEPT !.pc = "run"]
       ELSE IF files[LibFile(proc[p].k)].exists THEN [@ EXCEPT !.pc = "load"]
       ELSE [@ EXCEPT !.pc = "open", !.compiles = @ + 1]]
  /\ UNCHANGED << files, compiledFrom, engineVars >>

(* line 103: open(self.src_file, 'w') truncates the file *)
OpenSrc == \E p \in Procs :
  /\ At(p, "open")
  /\ files' = [files EXCEPT ![SrcFile(proc[p].k)] = FileOf(NoCode, p)]
  /\ proc' = [proc EXCEPT ![p].pc = "write1"]
  /\ UNCHANGED << compiledFrom, engineVars >>

(* line 104: f.write(self.ccode), one piece at a time *)
WriteSrc == \E p \in Procs, i \in 1..2 :
  /\ At(p, IF i = 1 THEN "write1" ELSE "write2")
  /\ files' = [files EXCEPT ![SrcFile(proc[p].k)] =
       FileOf(WriteAt(@.data, i, proc[p].ccode[i]), p)]
  /\ proc' = [proc EXCEPT ![p].pc = IF i = 1 THEN "write2" ELSE "cc"]
  /\ UNCHANGED << compiledFrom, engineVars >>

(* line 105: compiler.compile(src, lib, log) reads the source *)
CompilerRead == \E p \in Procs :
  /\ At(p, "cc")
  /\ proc' = [proc EXCEPT ![p] =
       [@ EXCEPT !.pc = "link", !.read = files[SrcFile(proc[p].k)].data]]
  /\ compiledFrom' = compiledFrom \cup {files[SrcFile(proc[p].k)].data}
  /\ UNCHANGED << files, engineVars >>

(* the compiler builds into a temporary path and renames it onto the .so   *)
(* in one step; a source cut short may still compile, to a library without *)
(* particle_loop                                                           *)
CompilerRename == \E p \in Procs :
  /\ At(p, "link")
  /\ files' = [files EXCEPT ![LibFile(proc[p].k)] = FileOf(proc[p].read, p)]
  /\ proc' = [proc EXCEPT ![p].pc = "load"]
  /\ UNCHANGED << compiledFrom, engineVars >>

(* the compiler rejects a source that is not whole: no .so is written *)
CompilerFail == \E p \in Procs :
  /\ At(p, "link")
  /\ ~Complete(proc[p].read)
  /\ proc' = [proc EXCEPT ![p].pc = "failed"]
  /\ UNCHANGED << files, compiledFrom, engineVars >>

(* lines 108-110: load_lib *)
LoadLib == \E p \in Procs :
  /\ At(p, "load")
  /\ LET so == files[LibFile(proc[p].k)].data
     IN proc' = [proc EXCEPT ![p] =
          IF HasLoop(so)
          THEN [@ EXCEPT !.pc = "run", !.lib = so, !.loaded = TRUE]
          ELSE [@ EXCEPT !.pc = "failed", !.lib = so]]
  /\ UNCHANGED << files, compiledFrom, engineVars >>

(* lines 112-118: execute_jit calls particle_loop of the loaded library *)
ExecuteJit == \E p \in Procs :
  /\ At(p, "run")
  /\ proc' = [proc EXCEPT ![p] =
       [@ EXCEPT !.pc = "ready", !.execs = @ + 1]]
  /\ UNCHANGED << files, compiledFrom, engineVars >>

InitCache ==
  /\ particles = << >>
  /\ phase = "cache"
  /\ callsLeft = 0
  /\ Idle

NextCache ==
  \/ Construct
  \/ BeginExecute
  \/ OpenSrc
  \/ WriteSrc
  \/ CompilerRead
  \/ CompilerRename
  \/ CompilerFail
  \/ LoadLib
  \/ ExecuteJit

SpecCache == InitCache /\ [][NextCache]_vars

Built(p) == proc[p].pc # "new"

(* C21: two Kernels whose generated code differs never have the same       *)
(* cache key, so they never share their .c, .so and .log paths.            *)
C21_DistinctCodeDistinctKey ==
  \A p, q \in Procs :
    (Built(p) /\ Built(q) /\ proc[p].ccode # proc[q].ccode) =>
      /\ CacheKey(proc[p].k) # CacheKey(proc[q].k)
      /\ SrcFile(proc[p].k) # SrcFile(proc[q].k)
      /\ LibFile(proc[p].k) # LibFile(proc[q].k)
      /\ LogFile(proc[p].k) # LogFile(proc[q].k)

(* C22: a Kernel built while the .so of its cache key exists runs neither  *)
(* the code generators nor the compiler and does not write the .so; and no *)
(* Kernel calls the compiler more than once however often it is executed.  *)
C22_CacheHitSkipsBuild ==
  \A p \in Procs :
    /\ (Built(p) /\ proc[p].hit) =>
         /\ proc[p].gens = 0
         /\ proc[p].compiles = 0
         /\ files[LibFile(proc[p].k)].by # p
    /\ proc[p].compiles <= 1

SameBuild ==
  \A p, q \in Procs :
    (Built(p) /\ Built(q)) => proc[p].ccode = proc[q].ccode

(* C23: when the processes build the same kernel under the same cache key, *)
(* in every interleaving the compiler only ever reads a whole source, the  *)
(* .so on disk is always the library of a whole source, and no process     *)
(* loads anything else.                                                    *)
C23_ConcurrentBuildsNeverCorrupt ==
  SameBuild =>
    /\ \A src \in compiledFrom : Complete(src)
    /\ \A f \in Paths :
         (f.ext = "so" /\ files[f].exists) => Complete(files[f].data)
    /\ \A p \in Procs : proc[p].lib # NoCode => Complete(proc[p].lib)

====
